---------------------------- MODULE Spec2Model ----------------------------
(***************************************************************************)
(* Verification model of the form-test engine of commcare-app-tools:       *)
(*   test/definition.py      TestDefinition (replay protocol encoder)      *)
(*   test/runner.py          TestRunner (setup, execute, result parsing)   *)
(*   commcare_cli/runner.py  CommCareCLIRunner (process driver)            *)
(*   commcare_cli/builder.py CommCareCLIBuilder (jar and Java lookup)      *)
(*                                                                         *)
(* Text is a string, read character by character (Len, SubSeq, \o), so    *)
(* that the regular expressions, str.strip, str.split and str.join of the  *)
(* source are computed as Python computes them.                            *)
(***************************************************************************)
EXTENDS Integers, Sequences, FiniteSets, TLC

(***************************************************************************)
(* Bounds of the model.                                                    *)
(***************************************************************************)
\* Number of text pieces the player's stdout is assembled from.
MaxPieces == 4
\* Length of a question reference, in characters.
MaxRefLen == 4
\* Number of navigation lines of a definition.
MaxNav == 2
\* Number of entries of the answers map.
MaxAnswers == 2
\* Largest timeout (in clock ticks) of a definition.
MaxTimeout == 2

(***************************************************************************)
(* Python values.                                                          *)
(***************************************************************************)
\* Optional[str]: None, or a string.
None == [some |-> FALSE, val |-> ""]

Some(s) == [some |-> TRUE, val |-> s]

\* Truth value of an Optional[str]: None and "" are falsy.
Truthy(o) == o.some /\ o.val # ""

Min(S) == CHOOSE m \in S : \A n \in S : m <= n

\* Characters matched by \s and removed by str.strip().
Whitespace == {" ", "\n", "\t"}

\* Characters matched by \d.
Digits == {"0", "1", "2", "3", "4", "5", "6", "7", "8", "9"}

\* The i-th character of s, counted from 1.
Ch(s, i) == SubSeq(s, i, i)

\* s[i:].startswith(p), with i counted from 1.
StartsWithAt(s, i, p) ==
    /\ i >= 1
    /\ i + Len(p) - 1 <= Len(s)
    /\ SubSeq(s, i, i + Len(p) - 1) = p

StartsWith(s, p) == StartsWithAt(s, 1, p)

EndsWith(s, p) == Len(p) <= Len(s) /\ StartsWithAt(s, Len(s) - Len(p) + 1, p)

\* str.strip(): leading and trailing whitespace removed.
Strip(s) ==
    LET keep == {i \in 1..Len(s) : Ch(s, i) \notin Whitespace}
    IN  IF keep = {} THEN ""
        ELSE SubSeq(s, Min(keep), CHOOSE m \in keep : \A n \in keep : n <= m)

\* str.count(c) for a one-character c.
Count(s, c) == Cardinality({i \in 1..Len(s) : Ch(s, i) = c})

\* str.split("\n"): the pieces between newlines (always at least one piece).
RECURSIVE SplitFrom(_, _)
SplitFrom(s, from) ==
    LET nl == {i \in from..Len(s) : Ch(s, i) = "\n"}
    IN  IF nl = {} THEN <<SubSeq(s, from, Len(s))>>
        ELSE <<SubSeq(s, from, Min(nl) - 1)>> \o SplitFrom(s, Min(nl) + 1)

Split(s) == SplitFrom(s, 1)

\* sep.join(parts)
RECURSIVE Join(_, _)
Join(sep, parts) ==
    IF parts = <<>> THEN ""
    ELSE IF Len(parts) = 1 THEN parts[1]
    ELSE parts[1] \o sep \o Join(sep, Tail(parts))

(***************************************************************************)
(* Result extractor: TestRunner._extract_form_xml.                         *)
(***************************************************************************)
\* </[^>]+> tried at p: index of the closing ">" of the match, 0 if none.
CloseTagEnd(s, p) ==
    IF /\ StartsWithAt(s, p, "</")
       /\ p + 2 <= Len(s)
       /\ Ch(s, p + 2) # ">"
    THEN LET gt == {g \in (p + 3)..Len(s) : Ch(s, g) = ">"}
         IN  IF gt = {} THEN 0 ELSE Min(gt)
    ELSE 0

\* First alternative, <\?xml\s.*?\?>.*?</[^>]+>, tried at i: index of the
\* last character of the match, 0 if it does not match there.
XmlDeclMatchEnd(s, i) ==
    IF /\ StartsWithAt(s, i, "<?xml")
       /\ i + 5 <= Len(s)
       /\ Ch(s, i + 5) \in Whitespace
    THEN LET closeAfter(j) == {p \in (j + 2)..Len(s) : CloseTagEnd(s, p) # 0}
             decl == {j \in (i + 6)..Len(s) :
                        StartsWithAt(s, j, "?>") /\ closeAfter(j) # {}}
         IN  IF decl = {} THEN 0
             ELSE CloseTagEnd(s, Min(closeAfter(Min(decl))))
    ELSE 0

\* Second alternative, <data\s[^>]*>.*?</data>, tried at i.
DataMatchEnd(s, i) ==
    IF /\ StartsWithAt(s, i, "<data")
       /\ i + 5 <= Len(s)
       /\ Ch(s, i + 5) \in Whitespace
    THEN LET gt == {g \in (i + 6)..Len(s) : Ch(s, g) = ">"}
             close(g) == {d \in (g + 1)..Len(s) :
                            StartsWithAt(s, d, "</data>")}
         IN  IF gt = {} THEN 0
             ELSE IF close(Min(gt)) = {} THEN 0
             ELSE Min(close(Min(gt))) + 6
    ELSE 0

\* xml_pattern.search(stdout): the leftmost match, the first alternative
\* tried first; None if the pattern matches nowhere.
XmlPatternSearch(s) ==
    LET starts == {i \in 1..Len(s) :
                     XmlDeclMatchEnd(s, i) # 0 \/ DataMatchEnd(s, i) # 0}
        i == Min(starts)
        e == IF XmlDeclMatchEnd(s, i) # 0 THEN XmlDeclMatchEnd(s, i)
             ELSE DataMatchEnd(s, i)
    IN  IF starts = {} THEN None ELSE Some(SubSeq(s, i, e))

\* Whether a line switches the fallback scan into in_xml mode.
OpensXml(stripped, in_xml) ==
    \/ StartsWith(stripped, "<?xml")
    \/ /\ StartsWith(stripped, "<")
       /\ ~StartsWith(stripped, "<!")
       /\ Len(stripped) > 10
       /\ ~in_xml

\* A faulty variant of FallbackScan: a closing-tag line that does not
\* complete a block of more than 3 "<" discards the block and leaves in_xml
\* mode.
RECURSIVE FallbackScan_discarding(_, _, _, _)
FallbackScan_discarding(lines, k, in_xml, xml_lines) ==
    IF k > Len(lines) THEN None
    ELSE LET line == lines[k]
             stripped == Strip(line)
             now_in == in_xml \/ OpensXml(stripped, in_xml)
             acc == Append(xml_lines, line)
             candidate == Strip(Join("\n", acc))
             closing == StartsWith(stripped, "</") /\ EndsWith(stripped, ">")
         IN  IF ~now_in
             THEN FallbackScan_discarding(lines, k + 1, FALSE, xml_lines)
             ELSE IF closing /\ Count(candidate, "<") > 3 THEN Some(candidate)
             ELSE IF closing
             THEN FallbackScan_discarding(lines, k + 1, FALSE, <<>>)
             ELSE FallbackScan_discarding(lines, k + 1, TRUE, acc)

\* The fallback loop over the lines of stdout, from line k on.
RECURSIVE FallbackScan(_, _, _, _)
FallbackScan(lines, k, in_xml, xml_lines) ==
    IF k > Len(lines) THEN None
    ELSE LET line == lines[k]
             stripped == Strip(line)
             now_in == in_xml \/ OpensXml(stripped, in_xml)
             acc == Append(xml_lines, line)
             candidate == Strip(Join("\n", acc))
         IN  IF ~now_in THEN FallbackScan(lines, k + 1, FALSE, xml_lines)
             ELSE IF /\ StartsWith(stripped, "</")
                     /\ EndsWith(stripped, ">")
                     /\ Count(candidate, "<") > 3
                  THEN Some(candidate)
                  ELSE FallbackScan(lines, k + 1, TRUE, acc)

\* A faulty variant of _extract_form_xml: output in which no form is found
\* is returned as it is.
_extract_form_xml_raw_output(stdout) ==
    IF stdout = "" THEN None
    ELSE LET match == XmlPatternSearch(stdout)
             found == FallbackScan(Split(stdout), 1, FALSE, <<>>)
         IN  IF match.some THEN Some(Strip(match.val))
             ELSE IF found.some THEN found
             ELSE Some(stdout)

_extract_form_xml(stdout) ==
    IF stdout = "" THEN None
    ELSE LET match == XmlPatternSearch(stdout)
         IN  IF match.some THEN Some(Strip(match.val))
             ELSE FallbackScan(Split(stdout), 1, FALSE, <<>>)

(***************************************************************************)
(* Replay protocol encoder: TestDefinition (test/definition.py).           *)
(* The answers dict is a sequence of [xpath, value] entries with distinct  *)
(* xpaths, in insertion order (the order dict.items() yields them).        *)
(***************************************************************************)
ACTION_SKIP == "SKIP"

ACTION_NEW_REPEAT == "NEW_REPEAT"

\* Number of empty lines build_stdin appends after ":next".
TrailingEmptyLines == 10

\* re.search(r"\[\d+\]$", xpath): "$" matches at the end of the string and
\* just before a newline that ends the string.
TrailingIndexSearch(xpath) ==
    \E i \in 1..Len(xpath), e \in 1..Len(xpath) :
        /\ Ch(xpath, i) = "["
        /\ e > i + 1
        /\ \A k \in (i + 1)..(e - 1) : Ch(xpath, k) \in Digits
        /\ Ch(xpath, e) = "]"
        /\ \/ e = Len(xpath)
           \/ e = Len(xpath) - 1 /\ Ch(xpath, Len(xpath)) = "\n"

\* A faulty variant of _ensure_indexed_xpath: the pattern without its "$",
\* so that an index anywhere in the reference counts.
_ensure_indexed_xpath_unanchored(xpath) ==
    IF \E i \in 1..Len(xpath), e \in 1..Len(xpath) :
          /\ Ch(xpath, i) = "["
          /\ e > i + 1
          /\ \A k \in (i + 1)..(e - 1) : Ch(xpath, k) \in Digits
          /\ Ch(xpath, e) = "]"
    THEN xpath ELSE xpath \o "[1]"

_ensure_indexed_xpath(xpath) ==
    IF TrailingIndexSearch(xpath) THEN xpath ELSE xpath \o "[1]"

\* A faulty variant of ReplayPart: the NEW_REPEAT branch is missing.
ReplayPart_without_new_repeat(xpath, value) ==
    LET indexed == _ensure_indexed_xpath(xpath)
    IN  IF value = ACTION_SKIP THEN "((" \o indexed \o ") (SKIP))"
        ELSE "((" \o indexed \o ") (VALUE) (" \o value \o "))"

\* One pass of the loop of build_replay_string: the part appended for one
\* answers entry.
ReplayPart(xpath, value) ==
    LET indexed == _ensure_indexed_xpath(xpath)
    IN  IF value = ACTION_SKIP THEN "((" \o indexed \o ") (SKIP))"
        ELSE IF value = ACTION_NEW_REPEAT THEN "((" \o indexed \o ") (NEW_REPEAT))"
        ELSE "((" \o indexed \o ") (VALUE) (" \o value \o "))"

build_replay_string(self) ==
    Join(" ", [i \in 1..Len(self.answers) |->
                 ReplayPart(self.answers[i].xpath, self.answers[i].value)])

\* A faulty variant of build_stdin: ":next" is not sent after ":replay".
build_stdin_without_next(self) ==
    LET form_lines ==
            IF self.answers # <<>>
            THEN <<"", ":replay " \o build_replay_string(self)>>
                 \o [i \in 1..TrailingEmptyLines |-> ""]
            ELSE <<>>
    IN  Join("\n", self.navigation \o form_lines) \o "\n"

\* A faulty variant of build_stdin: the form block is sent whether or not
\* there are answers.
build_stdin_always_replay(self) ==
    Join("\n", self.navigation
               \o <<"", ":replay " \o build_replay_string(self), ":next">>
               \o [i \in 1..TrailingEmptyLines |-> ""]) \o "\n"

build_stdin(self) ==
    LET form_lines ==
            IF self.answers # <<>>
            THEN <<"", ":replay " \o build_replay_string(self), ":next">>
                 \o [i \in 1..TrailingEmptyLines |-> ""]
            ELSE <<>>
    IN  Join("\n", self.navigation \o form_lines) \o "\n"

(***************************************************************************)
(* TestResult and result parsing: TestRunner._parse_result.                *)
(***************************************************************************)
\* The dataclass TestResult; form_xml and error are Optional[str].
TestResult(test_name, passed, form_xml, stdout, stderr, exit_code, duration, error) ==
    [test_name |-> test_name, passed |-> passed, form_xml |-> form_xml,
     stdout |-> stdout, stderr |-> stderr, exit_code |-> exit_code,
     duration_seconds |-> duration, error |-> error]

\* str(returncode)
IntToStr(n) ==
    LET digit(d) == SubSeq("0123456789", d + 1, d + 1)
        abs == IF n < 0 THEN 0 - n ELSE n
        text == IF abs < 10 THEN digit(abs)
                ELSE digit(abs \div 10) \o digit(abs % 10)
    IN  IF n < 0 THEN "-" \o text ELSE text

\* A faulty variant of _parse_result: the captured form decides before the
\* exit code is looked at.
_parse_result_form_first(defn, process, duration) ==
    LET form_xml == _extract_form_xml(process.stdout)
    IN  IF Truthy(form_xml)
        THEN TestResult(defn.name, TRUE, form_xml, process.stdout,
                        process.stderr, process.returncode, duration, None)
        ELSE IF process.returncode # 0
        THEN TestResult(defn.name, FALSE, form_xml, process.stdout,
                        process.stderr, process.returncode, duration,
                        Some("Process exited with code "
                             \o IntToStr(process.returncode)))
        ELSE TestResult(defn.name, FALSE, None, process.stdout,
                        process.stderr, process.returncode, duration,
                        Some("Form XML not found in output. The form may not have completed."))

_parse_result(defn, process, duration) ==
    LET form_xml == _extract_form_xml(process.stdout)
    IN  IF process.returncode # 0
        THEN TestResult(defn.name, FALSE, form_xml, process.stdout,
                        process.stderr, process.returncode, duration,
                        Some("Process exited with code "
                             \o IntToStr(process.returncode)))
        ELSE IF Truthy(form_xml)
        THEN TestResult(defn.name, TRUE, form_xml, process.stdout,
                        process.stderr, process.returncode, duration, None)
        ELSE TestResult(defn.name, FALSE, None, process.stdout,
                        process.stderr, process.returncode, duration,
                        Some("Form XML not found in output. The form may not have completed."))

(***************************************************************************)
(* State.                                                                  *)
(***************************************************************************)
VARIABLES
    \* Result parsing: the text a player has written, the number of pieces
    \* it was written in, <<its exit code>> once it has exited, and the
    \* TestResult parsed from the completed process (<<>> before).
    out_text, out_pieces, out_exit, parsed,
    \* Reference normalisation: a question reference as typed, and what
    \* _ensure_indexed_xpath made of it (None before).
    ref_xpath, ref_indexed,
    \* Script encoding: a TestDefinition and its build_stdin() (None before).
    enc_def, enc_script,
    \* One call of TestRunner.run_test:
    \*   pc            where run_test is: "setup_app", "setup_restore",
    \*                 "execute", "running" (inside subprocess.run), "done"
    \*                 (a TestResult was returned), "raised" (an exception
    \*                 left run_test)
    \*   definition    the TestDefinition under test
    \*   ccz_cached, restore_cached   whether the workspace holds the files
    \*   requests      the requests sent to the remote API, in order
    \*   responses     what the API answered to each of them, in order
    \*   stdin_input   the session script built by execute (None before)
    \*   proc          the player process
    \*   elapsed       seconds since the player was spawned
    \*   result        <<TestResult>> once run_test has returned, else <<>>
    \*   raised        the exception that left run_test, or "none"
    \*   setup_error   message of the RuntimeError an ensure_* step raised
    \*   launch_error  the exception raised while launching the player
    \*   phases        the phases run_test has announced ("[1/3] Setup",
    \*                 "[2/3] Executing test", "[3/3] Results"), in order
    pc, definition, ccz_cached, restore_cached, requests, responses,
    stdin_input, proc, elapsed, result, raised, setup_error, launch_error,
    phases,
    \* Loading: a definition document as yaml.safe_load returns it, and
    \* <<what from_dict made of it>> (<<>> before).
    doc, loaded,
    \* One invocation of the command "cc test run":
    \*   cli_pc          where the command is: "load", "overrides",
    \*                   "timeout", "run_test", "report", "exit"
    \*   cli_domain      the --domain option (None if not given)
    \*   cli_timeout     the --timeout option (NoInt if not given)
    \*   cli_output_xml  whether --output-xml was given
    \*   heap            the objects created so far; an object's address is
    \*                   its position
    \*   source_ref      address of the TestDefinition from_file returned
    \*   definition_ref  address of the TestDefinition the local variable
    \*                   "definition" refers to (0 before loading)
    \*   xml_file        content of the --output-xml file (None if not written)
    \*   report          <<the dictionary handed to format_output>>
    \*   exit_status     <<the exit status of the command>> once it has ended
    \*   cli_raised      the exception that left the command, or "none"
    cli_pc, cli_domain, cli_timeout, cli_output_xml, heap, source_ref,
    definition_ref, xml_file, report, exit_status, cli_raised,
    \* Two runs that set up the same app at the same time:
    \*   conc_pc        where each run is in ensure_app_downloaded: "check",
    \*                  "download", "save", "done" (the path was returned),
    \*                  "failed" (RuntimeError)
    \*   conc_requests  the requests each run has sent
    \*   ccz_file       what the CCZ file of the app holds: "absent" (no
    \*                  file), "earlier" (written before both runs), or the
    \*                  content a run wrote ("run1", "run2")
    \*   ccz_writes     the runs that have written the CCZ file, in order
    conc_pc, conc_requests, ccz_file, ccz_writes

parseVars == <<out_text, out_pieces, out_exit, parsed>>

refVars == <<ref_xpath, ref_indexed>>

encVars == <<enc_def, enc_script>>

runVars ==
    <<pc, definition, ccz_cached, restore_cached, requests, responses,
      stdin_input, proc, elapsed, result, raised, setup_error, launch_error,
      phases>>

loadVars == <<doc, loaded>>

cliVars ==
    <<cli_pc, cli_domain, cli_timeout, cli_output_xml, heap, source_ref,
      definition_ref, xml_file, report, exit_status, cli_raised>>

concVars == <<conc_pc, conc_requests, ccz_file, ccz_writes>>

vars == <<parseVars, refVars, encVars, runVars, loadVars, cliVars, concVars>>

\* What the steps of one part of the model leave alone: the other parts.
outsideParse == <<refVars, encVars, runVars, loadVars, cliVars, concVars>>

outsideRef == <<parseVars, encVars, runVars, loadVars, cliVars, concVars>>

outsideEnc == <<parseVars, refVars, runVars, loadVars, cliVars, concVars>>

outsideRun == <<parseVars, refVars, encVars, loadVars, cliVars, concVars>>

outsideLoad == <<parseVars, refVars, encVars, runVars, cliVars, concVars>>

outsideCli == <<parseVars, refVars, encVars, concVars>>

outsideConc ==
    <<parseVars, refVars, encVars, runVars, loadVars, cliVars>>

\* All sequences over S of length at most n.
BoundedSeq(S, n) == UNION {[1..k -> S] : k \in 0..n}

\* TestDefinition(name, domain, app_id, username, navigation, answers, timeout)
TestDefinition(name, domain, app_id, username, navigation, answers, timeout) ==
    [name |-> name, domain |-> domain, app_id |-> app_id,
     username |-> username, navigation |-> navigation, answers |-> answers,
     timeout |-> timeout]

\* The variables of a part of the model that is not running.
ParseIdle == out_text = "" /\ out_pieces = 0 /\ out_exit = <<>> /\ parsed = <<>>

RefIdle == ref_xpath = "" /\ ref_indexed = None

EncIdle ==
    /\ enc_def = TestDefinition("t1", "p", "a", "u", <<>>, <<>>, 120)
    /\ enc_script = None

\* No player process has been spawned.
NoProcess ==
    [state |-> "none", args |-> <<>>, stdin |-> None, stdin_closed |-> FALSE,
     returncode |-> 0, stdout |-> "", stderr |-> ""]

\* The concurrent runs.
Runs == {1, 2}

ConcIdle ==
    /\ conc_pc = [r \in Runs |-> "idle"]
    /\ conc_requests = [r \in Runs |-> <<>>]
    /\ ccz_file = "absent" /\ ccz_writes = <<>>

\* An integer option that was not given.
NoInt == [some |-> FALSE, val |-> 0]

SomeInt(n) == [some |-> TRUE, val |-> n]

CliIdle ==
    /\ cli_pc = "idle" /\ cli_domain = None /\ cli_timeout = NoInt
    /\ cli_output_xml = FALSE /\ heap = <<>> /\ source_ref = 0
    /\ definition_ref = 0 /\ xml_file = None /\ report = <<>>
    /\ exit_status = <<>> /\ cli_raised = "none"

RunIdle ==
    /\ pc = "idle"
    /\ definition = TestDefinition("t1", "p", "a", "u", <<>>, <<>>, 120)
    /\ ccz_cached = FALSE /\ restore_cached = FALSE
    /\ requests = <<>> /\ responses = <<>>
    /\ stdin_input = None /\ proc = NoProcess
    /\ elapsed = 0 /\ result = <<>> /\ raised = "none"
    /\ setup_error = None /\ launch_error = "none" /\ phases = <<>>

(***************************************************************************)
(* Loading of a definition document: TestDefinition.from_dict.             *)
(***************************************************************************)
\* A value of a loaded YAML document: of a key that is absent, null, a
\* string or an integer.
YamlAbsent == [tag |-> "absent", s |-> "", n |-> 0]

YamlNull == [tag |-> "null", s |-> "", n |-> 0]

YamlStr(text) == [tag |-> "str", s |-> text, n |-> 0]

YamlInt(number) == [tag |-> "int", s |-> "", n |-> number]

\* A list or mapping of a document: absent, null, or its items.
YamlNoItems(tag) == [tag |-> tag, items |-> <<>>]

YamlItems(items) == [tag |-> "items", items |-> items]

\* data.get(k): None for an absent key.
DictGet(v) == IF v.tag = "absent" THEN YamlNull ELSE v

\* data.get(k, default)
DictGetDefault(v, default) == IF v.tag = "absent" THEN default ELSE v

\* not v
Falsy(v) ==
    \/ v.tag = "null"
    \/ v.tag = "str" /\ v.s = ""
    \/ v.tag = "int" /\ v.n = 0

\* str(v)
PyStr(v) ==
    CASE v.tag = "str" -> v.s
      [] v.tag = "int" -> IntToStr(v.n)
      [] OTHER -> "None"

\* The number a string of decimal digits writes.
RECURSIVE DigitsToInt(_)
DigitsToInt(text) ==
    IF text = "" THEN 0
    ELSE 10 * DigitsToInt(SubSeq(text, 1, Len(text) - 1))
         + CHOOSE d \in 0..9 : Ch("0123456789", d + 1) = Ch(text, Len(text))

\* int(v): the integer, or the exception int() raises.
PyInt(v) ==
    CASE v.tag = "int" -> [exc |-> "none", n |-> v.n]
      [] v.tag = "str" ->
            LET t == Strip(v.s)
                signed == t # "" /\ Ch(t, 1) \in {"+", "-"}
                body == IF signed THEN SubSeq(t, 2, Len(t)) ELSE t
            IN  IF body # "" /\ \A i \in 1..Len(body) : Ch(body, i) \in Digits
                THEN [exc |-> "none",
                      n |-> IF Ch(t, 1) = "-" THEN 0 - DigitsToInt(body)
                            ELSE DigitsToInt(body)]
                ELSE [exc |-> "ValueError", n |-> 0]
      [] OTHER -> [exc |-> "TypeError", n |-> 0]

\* The keys from_dict requires, in the order it tests them.
RequiredFields == <<"name", "domain", "app_id", "username">>

\* A faulty variant of from_dict: the required keys are not tested, and
\* str() is made of whatever they hold.
from_dict_without_validation(data) ==
    [exc |-> "none", message |-> "",
     value |-> <<TestDefinition(PyStr(DictGet(data.name)),
                                PyStr(DictGet(data.domain)),
                                PyStr(DictGet(data.app_id)),
                                PyStr(DictGet(data.username)),
                                <<>>, <<>>, MaxTimeout)>>]

\* TestDefinition.from_dict(data): the exception it raises ("none" if it
\* returns), the message of the exception, and <<the definition>> returned.
from_dict(data) ==
    LET missing == SelectSeq(RequiredFields, LAMBDA k : Falsy(DictGet(data[k])))
        navigation == [i \in 1..Len(data.navigation.items) |->
                          PyStr(data.navigation.items[i])]
        answers == [i \in 1..Len(data.answers.items) |->
                       [xpath |-> PyStr(data.answers.items[i].key),
                        value |-> PyStr(data.answers.items[i].value)]]
        timeout == PyInt(DictGetDefault(data.timeout, YamlInt(120)))
    IN  IF missing # <<>>
        THEN [exc |-> "ValueError",
              message |-> "Missing required fields: " \o Join(", ", missing),
              value |-> <<>>]
        ELSE IF timeout.exc # "none"
        THEN [exc |-> timeout.exc,
              message |-> IF timeout.exc = "ValueError"
                          THEN "invalid literal for int() with base 10: '"
                               \o data.timeout.s \o "'"
                          ELSE "int() argument must be a string, a bytes-like object or a real number, not 'NoneType'",
              value |-> <<>>]
        ELSE [exc |-> "none", message |-> "",
              value |-> <<TestDefinition(data.name.s, data.domain.s,
                                         data.app_id.s, data.username.s,
                                         navigation, answers, timeout.n)>>]

\* A definition document with the given values of its keys.
Document(name, domain, app_id, username, navigation, answers, timeout) ==
    [name |-> name, domain |-> domain, app_id |-> app_id,
     username |-> username, navigation |-> navigation, answers |-> answers,
     timeout |-> timeout]

\* Values of a required key: absent, null, empty, a text, the number 0.
RequiredSamples == {YamlAbsent, YamlNull, YamlStr(""), YamlStr("x"), YamlInt(0)}

\* Values of the timeout key: absent, null, texts that are not numbers,
\* texts that are, and a number.
TimeoutSamples ==
    {YamlAbsent, YamlNull, YamlStr("abc"), YamlStr(""), YamlStr("30"),
     YamlStr(" 7\n"), YamlInt(45)}

NavigationSamples ==
    {YamlNoItems("absent"), YamlNoItems("null"),
     YamlItems(<<YamlStr("1"), YamlInt(2)>>)}

AnswersSamples ==
    {YamlNoItems("absent"),
     YamlItems(<<[key |-> YamlStr("/data/q"), value |-> YamlInt(3)]>>)}

Documents ==
    {Document(n, d, a, u, nav, ans, t) :
        n \in RequiredSamples, d \in RequiredSamples, a \in RequiredSamples,
        u \in RequiredSamples, nav \in NavigationSamples,
        ans \in AnswersSamples, t \in TimeoutSamples}

LoadIdle ==
    /\ doc = Document(YamlStr("x"), YamlStr("x"), YamlStr("x"), YamlStr("x"),
                      YamlNoItems("absent"), YamlNoItems("absent"), YamlAbsent)
    /\ loaded = <<>>

InitLoad ==
    /\ doc \in Documents /\ loaded = <<>>
    /\ ParseIdle /\ RefIdle /\ EncIdle /\ RunIdle /\ CliIdle /\ ConcIdle

\* from_dict is called on the document.
FromDict ==
    /\ loaded = <<>>
    /\ loaded' = <<from_dict(doc)>>
    /\ UNCHANGED <<doc, outsideLoad>>

NextLoad == FromDict

SpecLoad == InitLoad /\ [][NextLoad]_vars

(***************************************************************************)
(* Result parsing of the output of a completed player process.             *)
(***************************************************************************)
\* Pieces of text a player writes: a root tag without and with attributes,
\* its closing tag, a child element, a line break, an XML declaration,
\* menu text and lone angle brackets.
StdoutPieces ==
    {"<data>", "<data x=\"1\">", "</data>", "<q>1</q>", "\n",
     "<?xml v=\"1\"?>", "Menu ", "<", ">"}

\* Exit codes of a player: success, failure, killed by a signal.
ExitCodes == {0, 1, -9}

InitParse ==
    /\ out_text = "" /\ out_pieces = 0 /\ out_exit = <<>> /\ parsed = <<>>
    /\ RefIdle /\ EncIdle /\ RunIdle /\ LoadIdle /\ CliIdle /\ ConcIdle

\* The player writes one more piece to its stdout.
PlayerWrites ==
    /\ out_exit = <<>>
    /\ out_pieces < MaxPieces
    /\ \E piece \in StdoutPieces : out_text' = out_text \o piece
    /\ out_pieces' = out_pieces + 1
    /\ UNCHANGED <<out_exit, parsed, outsideParse>>

\* The player exits.
PlayerCompletes ==
    /\ out_exit = <<>>
    /\ \E rc \in ExitCodes : out_exit' = <<rc>>
    /\ UNCHANGED <<out_text, out_pieces, parsed, outsideParse>>

\* _parse_result builds the TestResult from the completed process.
ParseResult ==
    /\ out_exit # <<>> /\ parsed = <<>>
    /\ parsed' = <<_parse_result(enc_def,
                                 [returncode |-> out_exit[1],
                                  stdout |-> out_text, stderr |-> ""], 0)>>
    /\ UNCHANGED <<out_text, out_pieces, out_exit, outsideParse>>

NextParse == PlayerWrites \/ PlayerCompletes \/ ParseResult

SpecParse == InitParse /\ [][NextParse]_vars

(***************************************************************************)
(* Result parsing of an output the player prints line by line, none of     *)
(* whose lines the regular expression of the first pass matches: the       *)
(* outputs that the fallback line scan decides.                            *)
(***************************************************************************)
\* Lines a player prints: menu text, a comment, a child element, a root
\* element opened with a child on the same line, closing tags alone, with
\* blanks around them and followed by an element.
StdoutLines ==
    {"Menu ", "<!-- comment -->", "<q>1</q>", "<data><q>1</q>", "</data>",
     "  </q></data> ", "</data><q>1</q>"}

\* The player writes one more line to its stdout.
PlayerWritesLine ==
    /\ out_exit = <<>>
    /\ out_pieces < MaxPieces
    /\ \E line \in StdoutLines : out_text' = out_text \o line \o "\n"
    /\ out_pieces' = out_pieces + 1
    /\ UNCHANGED <<out_exit, parsed, outsideParse>>

NextScan == PlayerWritesLine \/ PlayerCompletes \/ ParseResult

SpecScan == InitParse /\ [][NextScan]_vars

(***************************************************************************)
(* Reference normalisation of one question reference.                      *)
(***************************************************************************)
RefChars == {"q", "[", "]", "0", "1", "\n"}

InitRef ==
    /\ ref_xpath = "" /\ ref_indexed = None
    /\ ParseIdle /\ EncIdle /\ RunIdle /\ LoadIdle /\ CliIdle /\ ConcIdle

TypeRefChar ==
    /\ ref_indexed = None
    /\ Len(ref_xpath) < MaxRefLen
    /\ \E c \in RefChars : ref_xpath' = ref_xpath \o c
    /\ UNCHANGED <<ref_indexed, outsideRef>>

EnsureIndexed ==
    /\ ref_indexed = None
    /\ ref_indexed' = Some(_ensure_indexed_xpath(ref_xpath))
    /\ UNCHANGED <<ref_xpath, outsideRef>>

NextRef == TypeRefChar \/ EnsureIndexed

SpecRef == InitRef /\ [][NextRef]_vars

(***************************************************************************)
(* Encoding of a definition into the session script.                       *)
(***************************************************************************)
\* Navigation lines: menu and entity selections.
NavItems == {"1", "20"}

XPathSamples == {"/data/q", "/data/q[2]", "/data/g[0]"}

ValueSamples == {"SKIP", "NEW_REPEAT", "skip", "Jane"}

\* The answers maps: entries with pairwise distinct keys.
AnswerMaps ==
    {a \in BoundedSeq([xpath : XPathSamples, value : ValueSamples], MaxAnswers) :
        \A i, j \in 1..Len(a) : a[i].xpath = a[j].xpath => i = j}

InitEnc ==
    /\ \E nav \in BoundedSeq(NavItems, MaxNav), ans \in AnswerMaps :
         enc_def = TestDefinition("t1", "p", "a", "u", nav, ans, 120)
    /\ enc_script = None
    /\ ParseIdle /\ RefIdle /\ RunIdle /\ LoadIdle /\ CliIdle /\ ConcIdle

BuildStdin ==
    /\ enc_script = None
    /\ enc_script' = Some(build_stdin(enc_def))
    /\ UNCHANGED <<enc_def, outsideEnc>>

NextEnc == BuildStdin

SpecEnc == InitEnc /\ [][NextEnc]_vars

(***************************************************************************)
(* Phase 1, setup: TestRunner.ensure_app_downloaded and                    *)
(* ensure_restore_downloaded, with WorkspaceManager.save_app_ccz and       *)
(* save_restore.                                                           *)
(***************************************************************************)
\* What one request to the remote API comes to: a response with a status
\* code, or an exception raised in the client (no connection, or OAuthError
\* when the caller is not authenticated).
ApiAnswers == {"200", "404", "500", "ConnectError"}

\* What saving a download comes to: all written; the directory cannot be
\* made; the write of the file fails after the file was created; the file is
\* written and the write of its metadata file fails.
DiskOutcomes == {"ok", "mkdir_error", "write_error", "info_error"}

\* Whether the artifact file exists after a save that ended in `disk`.
FileWritten(disk) == disk \in {"ok", "write_error", "info_error"}

\* A faulty variant of ensure_app_downloaded: only the released package is
\* asked for.
ensure_app_downloaded_release_only(cached, api, disk) ==
    LET reqs == <<"application", "download_ccz:release">>
        resps == <<api.info, api.release>>
        fail(detail, written) ==
            [error |-> Some("Failed to download app CCZ: " \o detail),
             requests |-> reqs, responses |-> resps, written |-> written]
    IN  IF cached
        THEN [error |-> None, requests |-> <<>>, responses |-> <<>>,
              written |-> FALSE]
        ELSE IF api.info # "200"
        THEN [error |-> Some("Failed to download app CCZ: " \o api.info),
              requests |-> <<"application">>, responses |-> <<api.info>>,
              written |-> FALSE]
        ELSE IF api.release # "200" THEN fail(api.release, FALSE)
        ELSE IF disk # "ok" THEN fail(disk, FileWritten(disk))
        ELSE [error |-> None, requests |-> reqs, responses |-> resps,
              written |-> TRUE]

\* ensure_app_downloaded: api.info, api.release, api.build and api.save are
\* the answers to the application request and to the download_ccz requests
\* for latest=release, build and save. Returns the RuntimeError's message
\* (None when the path is returned), the requests made, the answers they
\* got and whether the CCZ file was created.
ensure_app_downloaded(cached, api, disk) ==
    LET fail(r, detail, written) ==
            [error |-> Some("Failed to download app CCZ: " \o detail),
             requests |-> r.reqs, responses |-> r.resps, written |-> written]
        r0 == [reqs |-> <<"application">>, resps |-> <<api.info>>,
               resp |-> api.info]
        r1 == [reqs |-> Append(r0.reqs, "download_ccz:release"),
               resps |-> Append(r0.resps, api.release), resp |-> api.release]
        r2 == IF r1.resp = "404"
              THEN [reqs |-> Append(r1.reqs, "download_ccz:build"),
                    resps |-> Append(r1.resps, api.build), resp |-> api.build]
              ELSE r1
        r3 == IF r2.resp = "404"
              THEN [reqs |-> Append(r2.reqs, "download_ccz:save"),
                    resps |-> Append(r2.resps, api.save), resp |-> api.save]
              ELSE r2
    IN  IF cached
        THEN [error |-> None, requests |-> <<>>, responses |-> <<>>,
              written |-> FALSE]
        ELSE IF api.info # "200" THEN fail(r0, api.info, FALSE)
        ELSE IF r3.resp # "200" THEN fail(r3, r3.resp, FALSE)
        ELSE IF disk # "ok" THEN fail(r3, disk, FileWritten(disk))
        ELSE [error |-> None, requests |-> r3.reqs, responses |-> r3.resps,
              written |-> TRUE]

\* ensure_restore_downloaded: api.users is the answer to the user list
\* request, api.found whether the list holds the user, api.restore the
\* answer to the restore request.
ensure_restore_downloaded(defn, cached, api, disk) ==
    LET looked == [reqs |-> <<"user_list">>, resps |-> <<api.users>>]
        fetched == [reqs |-> <<"user_list", "restore">>,
                    resps |-> <<api.users, api.restore>>]
        fail(r, msg, written) ==
            [error |-> Some(msg), requests |-> r.reqs, responses |-> r.resps,
             written |-> written]
        wrapped(detail) == "Failed to download restore: " \o detail
    IN  IF api.users # "200" THEN fail(looked, wrapped(api.users), FALSE)
        ELSE IF ~api.found
        THEN fail(looked,
                  "User '" \o defn.username \o "' not found in domain '"
                  \o defn.domain \o "'", FALSE)
        ELSE IF cached
        THEN [error |-> None, requests |-> looked.reqs,
              responses |-> looked.resps, written |-> FALSE]
        ELSE IF api.restore # "200"
        THEN fail(fetched, wrapped(api.restore), FALSE)
        ELSE IF disk # "ok"
        THEN fail(fetched, wrapped(disk), FileWritten(disk))
        ELSE [error |-> None, requests |-> fetched.reqs,
              responses |-> fetched.resps, written |-> TRUE]

\* A faulty variant of SetupFailedResult: the failed result is returned
\* without an error message.
SetupFailedResult_without_error(defn, e) ==
    TestResult(defn.name, FALSE, None, "", "", -1, 0, None)

\* run_test's handler of the RuntimeError of a setup step.
SetupFailedResult(defn, e) ==
    TestResult(defn.name, FALSE, None, "", "", -1, 0, Some("Setup failed: " \o e))

(***************************************************************************)
(* Phase 2, execution: TestRunner.execute, CommCareCLIRunner and           *)
(* CommCareCLIBuilder.                                                     *)
(***************************************************************************)
\* CommCareCLIBuilder.get_jar_path: the cached jar, a jar built now, or the
\* exception build() raises.
JarLookups ==
    {"cached", "built", "BuildError", "JavaNotFoundError", "JavaVersionError",
     "GradleNotFoundError"}

\* CommCareCLIBuilder.find_java: a path, or JavaNotFoundError.
JavaLookups == {"found", "JavaNotFoundError"}

\* The spawn of the java process by subprocess.run: started, or the OSError
\* of a java executable that has gone or may not be executed.
SpawnOutcomes == {"ok", "FileNotFoundError", "PermissionError"}

\* CommCareCLIBuilder.get_jar_path: the exception it raises, "none" when
\* it returns the path of a cached or freshly built jar.
get_jar_path(jar) == IF jar \in {"cached", "built"} THEN "none" ELSE jar

\* CommCareCLIBuilder.find_java: the exception it raises, "none" when it
\* returns the path of a java executable.
find_java(java) == IF java = "found" THEN "none" ELSE java

\* A faulty variant of PlayArgs: the restore file is passed without "-r".
PlayArgs_without_flag(app_path, restore_file) ==
    <<"play", app_path, restore_file>>

\* CommCareCLIRunner.play: the arguments of the "play" command.
PlayArgs(app_path, restore_file) == <<"play", app_path, "-r", restore_file>>

\* CommCareCLIRunner.play_with_input, which execute calls and the runner
\* module does not hold: taken to launch the player the way run and
\* play_interactive of the same class do (get_jar_path(), find_java(), then
\* subprocess.run), with the arguments of play, the script as the input of
\* the process, and its output captured. Yields the exception that ends
\* the launch ("none" if the player starts) and the process spawned;
\* subprocess.run writes the whole input to the stdin of the process and
\* closes it.
play_with_input(app_path, restore_file, input, jar, java, spawn) ==
    [exc |-> IF get_jar_path(jar) # "none" THEN get_jar_path(jar)
             ELSE IF find_java(java) # "none" THEN find_java(java)
             ELSE IF spawn # "ok" THEN spawn
             ELSE "none",
     process |-> [state |-> "running",
                  args |-> PlayArgs(app_path, restore_file),
                  stdin |-> Some(input), stdin_closed |-> TRUE,
                  returncode |-> 0, stdout |-> "", stderr |-> ""]]

\* WorkspaceManager.get_app_ccz_path
get_app_ccz_path(defn) == defn.domain \o "/" \o defn.app_id \o "/app.ccz"

\* WorkspaceManager.get_restore_path (the user id is that of the username)
get_restore_path(defn) ==
    defn.domain \o "/" \o defn.app_id \o "/users/" \o defn.username
    \o "/restore.xml"

\* A faulty variant of ExecuteExcept: no clause for TimeoutExpired.
ExecuteExcept_without_timeout(defn, exc, duration) ==
    IF exc = "FileNotFoundError"
    THEN <<TestResult(defn.name, FALSE, None, "", "", -1, duration,
                      Some("CLI not found: " \o exc
                           \o ". Run 'cc cli build' first."))>>
    ELSE <<>>

\* The except clauses of execute: the TestResult returned for an exception
\* raised by the player call, <<>> for an exception execute does not catch.
ExecuteExcept(defn, exc, duration) ==
    IF exc = "TimeoutExpired"
    THEN <<TestResult(defn.name, FALSE, None, "", "", -1, duration,
                      Some("Test timed out after " \o IntToStr(defn.timeout)
                           \o " seconds"))>>
    ELSE IF exc = "FileNotFoundError"
    THEN <<TestResult(defn.name, FALSE, None, "", "", -1, duration,
                      Some("CLI not found: " \o exc
                           \o ". Run 'cc cli build' first."))>>
    ELSE <<>>

(***************************************************************************)
(* One call of TestRunner.run_test.                                        *)
(***************************************************************************)
\* What a player prints before it exits: nothing, a menu, a completed form
\* with and without attributes on its root element.
StdoutSamples ==
    {"", "Menu \n1) Register\n",
     "Menu \n<data x=\"1\"><q>1</q></data>\n",
     "<data><q>1</q></data>\n"}

RunDefinitions ==
    {TestDefinition("t1", "p", "a", "u", <<"1">>, ans, t) :
        ans \in {<<>>, <<[xpath |-> "/data/name", value |-> "Jane"]>>},
        t \in 1..MaxTimeout}

Init ==
    /\ pc = "setup_app"
    /\ definition \in RunDefinitions
    /\ ccz_cached \in BOOLEAN
    /\ restore_cached \in BOOLEAN
    /\ requests = <<>> /\ responses = <<>>
    /\ stdin_input = None /\ proc = NoProcess
    /\ elapsed = 0 /\ result = <<>> /\ raised = "none"
    /\ setup_error = None /\ launch_error = "none" /\ phases = <<>>
    /\ ParseIdle /\ RefIdle /\ EncIdle /\ LoadIdle /\ CliIdle /\ ConcIdle

\* A faulty variant of EnsureApp: the RuntimeError of the step is swallowed
\* and run_test goes on with the restore.
EnsureApp_swallows_error ==
    /\ pc = "setup_app"
    /\ \E api \in [info : ApiAnswers, release : ApiAnswers,
                   build : ApiAnswers, save : ApiAnswers],
          disk \in DiskOutcomes :
         LET r == ensure_app_downloaded(ccz_cached, api, disk)
         IN  /\ requests' = requests \o r.requests
             /\ responses' = responses \o r.responses
             /\ ccz_cached' = (ccz_cached \/ r.written)
             /\ setup_error' = r.error
             /\ result' = result
             /\ pc' = "setup_restore"
    /\ phases' = Append(phases, "SETUP")
    /\ UNCHANGED <<definition, restore_cached, stdin_input, proc, elapsed,
                   raised, launch_error, outsideRun>>

\* run_test, phase 1, first step: ensure_app_downloaded(definition).
EnsureApp ==
    /\ pc = "setup_app"
    /\ \E api \in [info : ApiAnswers, release : ApiAnswers,
                   build : ApiAnswers, save : ApiAnswers],
          disk \in DiskOutcomes :
         LET r == ensure_app_downloaded(ccz_cached, api, disk)
         IN  /\ requests' = requests \o r.requests
             /\ responses' = responses \o r.responses
             /\ ccz_cached' = (ccz_cached \/ r.written)
             /\ setup_error' = r.error
             /\ IF r.error.some
                THEN /\ result' = <<SetupFailedResult(definition, r.error.val)>>
                     /\ pc' = "done"
                ELSE /\ result' = result
                     /\ pc' = "setup_restore"
    /\ phases' = Append(phases, "SETUP")
    /\ UNCHANGED <<definition, restore_cached, stdin_input, proc, elapsed,
                   raised, launch_error, outsideRun>>

\* A faulty variant of EnsureRestore: the RuntimeError of the step is
\* swallowed and run_test goes on to phase 2.
EnsureRestore_swallows_error ==
    /\ pc = "setup_restore"
    /\ \E api \in [users : ApiAnswers, found : BOOLEAN, restore : ApiAnswers],
          disk \in DiskOutcomes :
         LET r == ensure_restore_downloaded(definition, restore_cached, api, disk)
         IN  /\ requests' = requests \o r.requests
             /\ responses' = responses \o r.responses
             /\ restore_cached' = (restore_cached \/ r.written)
             /\ setup_error' = r.error
             /\ pc' = "execute"
    /\ UNCHANGED <<definition, ccz_cached, stdin_input, proc, elapsed, result,
                   raised, launch_error, phases,
                   outsideRun>>

\* run_test, phase 1, second step: ensure_restore_downloaded(definition).
EnsureRestore ==
    /\ pc = "setup_restore"
    /\ \E api \in [users : ApiAnswers, found : BOOLEAN, restore : ApiAnswers],
          disk \in DiskOutcomes :
         LET r == ensure_restore_downloaded(definition, restore_cached, api, disk)
         IN  /\ requests' = requests \o r.requests
             /\ responses' = responses \o r.responses
             /\ restore_cached' = (restore_cached \/ r.written)
             /\ setup_error' = r.error
             /\ IF r.error.some
                THEN /\ result' = <<SetupFailedResult(definition, r.error.val)>>
                     /\ pc' = "done"
                ELSE /\ result' = result
                     /\ pc' = "execute"
    /\ UNCHANGED <<definition, ccz_cached, stdin_input, proc, elapsed,
                   raised, launch_error, phases,
                   outsideRun>>

\* run_test, phase 2: execute builds the session script and calls
\* play_with_input, which looks up the jar and Java and spawns the player
\* with the script as its input; an exception of the launch is handled by
\* execute's except clauses or leaves execute and run_test.
Execute ==
    /\ pc = "execute"
    /\ stdin_input' = Some(build_stdin(definition))
    /\ \E jar \in JarLookups, java \in JavaLookups, spawn \in SpawnOutcomes :
         /\ jar = "built" => java = "found"
         /\ LET play == play_with_input(get_app_ccz_path(definition),
                                        get_restore_path(definition),
                                        build_stdin(definition),
                                        jar, java, spawn)
                exc == play.exc
                handled == ExecuteExcept(definition, exc, 0)
            IN  /\ launch_error' = exc
                /\ IF exc = "none"
                   THEN /\ proc' = play.process
                        /\ pc' = "running"
                        /\ UNCHANGED <<result, raised>>
                        /\ phases' = Append(phases, "EXECUTE")
                   ELSE IF handled # <<>>
                   THEN /\ result' = handled
                        /\ pc' = "done"
                        /\ UNCHANGED <<proc, raised>>
                        /\ phases' = phases \o <<"EXECUTE", "REPORT">>
                   ELSE /\ raised' = exc
                        /\ pc' = "raised"
                        /\ UNCHANGED <<proc, result>>
                        /\ phases' = Append(phases, "EXECUTE")
    /\ UNCHANGED <<definition, ccz_cached, restore_cached, requests,
                   responses, elapsed, setup_error, outsideRun>>

\* A second passes while subprocess.run waits for the player.
Tick ==
    /\ pc = "running" /\ proc.state = "running"
    /\ elapsed < definition.timeout
    /\ elapsed' = elapsed + 1
    /\ UNCHANGED <<pc, definition, ccz_cached, restore_cached, requests,
                   responses, stdin_input, proc, result, raised, setup_error,
                   launch_error, phases,
                   outsideRun>>

\* The player exits within the timeout.
PlayerExits ==
    /\ pc = "running" /\ proc.state = "running"
    /\ elapsed < definition.timeout
    /\ \E rc \in ExitCodes, out \in StdoutSamples :
         proc' = [proc EXCEPT !.state = "exited", !.returncode = rc,
                              !.stdout = out]
    /\ UNCHANGED <<pc, definition, ccz_cached, restore_cached, requests,
                   responses, stdin_input, elapsed, result, raised, setup_error,
                   launch_error, phases,
                   outsideRun>>

\* subprocess.run returns the CompletedProcess; execute parses it and
\* run_test returns the TestResult.
ExecuteReturns ==
    /\ pc = "running" /\ proc.state = "exited"
    /\ result' = <<_parse_result(definition, proc, elapsed)>>
    /\ pc' = "done"
    /\ phases' = Append(phases, "REPORT")
    /\ UNCHANGED <<definition, ccz_cached, restore_cached, requests,
                   responses, stdin_input, proc, elapsed, raised, setup_error,
                   launch_error, outsideRun>>

\* A faulty variant of PlayerTimeout: after the first timeout of a run the
\* player is launched once more instead of the TestResult being returned.
PlayerTimeout_retries ==
    /\ pc = "running" /\ proc.state = "running"
    /\ elapsed >= definition.timeout
    /\ IF Len(phases) = 2
       THEN /\ proc' = NoProcess
            /\ elapsed' = 0
            /\ pc' = "execute"
            /\ UNCHANGED <<result, phases>>
       ELSE /\ proc' = [proc EXCEPT !.state = "killed"]
            /\ result' = ExecuteExcept(definition, "TimeoutExpired", elapsed)
            /\ pc' = "done"
            /\ phases' = Append(phases, "REPORT")
            /\ UNCHANGED elapsed
    /\ UNCHANGED <<definition, ccz_cached, restore_cached, requests,
                   responses, stdin_input, raised, setup_error, launch_error,
                   outsideRun>>

\* The timeout expires with the player still running: subprocess.run kills
\* the player, waits for it and raises TimeoutExpired, which execute turns
\* into a TestResult.
PlayerTimeout ==
    /\ pc = "running" /\ proc.state = "running"
    /\ elapsed >= definition.timeout
    /\ proc' = [proc EXCEPT !.state = "killed"]
    /\ result' = ExecuteExcept(definition, "TimeoutExpired", elapsed)
    /\ pc' = "done"
    /\ phases' = Append(phases, "REPORT")
    /\ UNCHANGED <<definition, ccz_cached, restore_cached, requests,
                   responses, stdin_input, elapsed, raised, setup_error,
                   launch_error,
                   outsideRun>>

Next ==
    \/ EnsureApp
    \/ EnsureRestore
    \/ Execute
    \/ Tick
    \/ PlayerExits
    \/ ExecuteReturns
    \/ PlayerTimeout

Spec == Init /\ [][Next]_vars

(***************************************************************************)
(* A run the caller interrupts.                                            *)
(***************************************************************************)
\* The caller interrupts the run (KeyboardInterrupt) while subprocess.run
\* waits for the player: subprocess.run kills the player and raises the
\* interrupt again, which meets the except clauses of execute.
Cancel ==
    /\ pc = "running" /\ proc.state = "running"
    /\ proc' = [proc EXCEPT !.state = "killed"]
    /\ LET handled == ExecuteExcept(definition, "KeyboardInterrupt", elapsed)
       IN  IF handled # <<>>
           THEN /\ result' = handled
                /\ pc' = "done"
                /\ phases' = Append(phases, "REPORT")
                /\ UNCHANGED raised
           ELSE /\ raised' = "KeyboardInterrupt"
                /\ pc' = "raised"
                /\ UNCHANGED <<result, phases>>
    /\ UNCHANGED <<definition, ccz_cached, restore_cached, requests,
                   responses, stdin_input, elapsed, setup_error, launch_error,
                   outsideRun>>

NextCancel == Next \/ Cancel

SpecCancel == Init /\ [][NextCancel]_vars

(***************************************************************************)
(* The command "cc test run": cli/test.py run_test.                        *)
(***************************************************************************)
\* TestDefinition.from_file on an existing file whose content yaml.safe_load
\* returned: from_dict of a mapping, ValueError for anything else.
from_file(data, is_mapping) ==
    IF ~is_mapping
    THEN [exc |-> "ValueError",
          message |-> "Test file must be a YAML mapping, got list",
          value |-> <<>>]
    ELSE from_dict(data)

\* The TestDefinition object at an address of the heap, with its navigation
\* list and answers mapping read out.
Deref(h, ref) ==
    TestDefinition(h[ref].name, h[ref].domain, h[ref].app_id, h[ref].username,
                   h[h[ref].navigation], h[h[ref].answers], h[ref].timeout)

\* cls(...) at the end of from_dict: the list, the mapping and the
\* TestDefinition object are created on the heap.
NewDefinition(h, defn) ==
    [heap |-> h \o <<defn.navigation, defn.answers,
                     TestDefinition(defn.name, defn.domain, defn.app_id,
                                    defn.username, Len(h) + 1, Len(h) + 2,
                                    defn.timeout)>>,
     ref |-> Len(h) + 3]

\* A faulty variant of with_overrides: the copy is given the navigation list
\* and the answers mapping of the source themselves.
with_overrides_sharing(h, self, domain) ==
    [heap |-> h \o <<TestDefinition(h[self].name,
                                    IF Truthy(domain) THEN domain.val
                                    ELSE h[self].domain,
                                    h[self].app_id, h[self].username,
                                    h[self].navigation, h[self].answers,
                                    h[self].timeout)>>,
     ref |-> Len(h) + 1]

\* TestDefinition.with_overrides(domain=domain): list(self.navigation) and
\* dict(self.answers) are new objects, and so is the TestDefinition.
with_overrides(h, self, domain) ==
    [heap |-> h \o <<h[h[self].navigation], h[h[self].answers],
                     TestDefinition(h[self].name,
                                    IF Truthy(domain) THEN domain.val
                                    ELSE h[self].domain,
                                    h[self].app_id, h[self].username,
                                    Len(h) + 1, Len(h) + 2, h[self].timeout)>>,
     ref |-> Len(h) + 3]

\* A faulty variant of to_dict: the size of the form is reported for a
\* passed test only.
to_dict_size_when_passed(self) ==
    LET keys == {"test_name", "passed", "exit_code", "duration_seconds"}
                \cup (IF Truthy(self.error) THEN {"error"} ELSE {})
                \cup (IF self.passed THEN {"form_xml_size_bytes"} ELSE {})
    IN  [k \in keys |->
            CASE k = "test_name" -> self.test_name
              [] k = "passed" -> self.passed
              [] k = "exit_code" -> self.exit_code
              [] k = "duration_seconds" -> self.duration_seconds
              [] k = "error" -> self.error.val
              [] k = "form_xml_size_bytes" -> Len(self.form_xml.val)]

\* TestResult.to_dict; round(duration_seconds, 2) of whole seconds is the
\* same number, and the fragments are ASCII, one byte a character.
to_dict(self) ==
    LET keys == {"test_name", "passed", "exit_code", "duration_seconds"}
                \cup (IF Truthy(self.error) THEN {"error"} ELSE {})
                \cup (IF Truthy(self.form_xml) THEN {"form_xml_size_bytes"}
                      ELSE {})
    IN  [k \in keys |->
            CASE k = "test_name" -> self.test_name
              [] k = "passed" -> self.passed
              [] k = "exit_code" -> self.exit_code
              [] k = "duration_seconds" -> self.duration_seconds
              [] k = "error" -> self.error.val
              [] k = "form_xml_size_bytes" -> Len(self.form_xml.val)]

\* The definition files the command is run on: with and without the name
\* and the username, with and without answers, with a timeout, with
\* "timeout: 0" and with "timeout:" left empty.
CliDocuments ==
    {Document(n, YamlStr("p"), YamlStr("a"), u, YamlItems(<<YamlInt(1)>>),
              ans, t) :
        n \in {YamlStr("t1"), YamlStr("")}, u \in {YamlStr("u"), YamlAbsent},
        ans \in {YamlNoItems("absent"),
                 YamlItems(<<[key |-> YamlStr("/data/name"),
                              value |-> YamlStr("Jane")]>>)},
        t \in {YamlInt(MaxTimeout), YamlInt(0), YamlNull}}

InitCli ==
    /\ cli_pc = "load"
    /\ doc \in CliDocuments /\ loaded = <<>>
    /\ cli_domain \in {None, Some(""), Some("q")}
    /\ cli_timeout \in {NoInt} \cup {SomeInt(t) : t \in -1..MaxTimeout}
    /\ cli_output_xml \in BOOLEAN
    /\ heap = <<>> /\ source_ref = 0 /\ definition_ref = 0
    /\ xml_file = None /\ report = <<>> /\ exit_status = <<>>
    /\ cli_raised = "none"
    /\ pc = "idle"
    /\ definition = TestDefinition("t1", "p", "a", "u", <<>>, <<>>, 120)
    /\ ccz_cached \in BOOLEAN /\ restore_cached \in BOOLEAN
    /\ requests = <<>> /\ responses = <<>>
    /\ stdin_input = None /\ proc = NoProcess
    /\ elapsed = 0 /\ result = <<>> /\ raised = "none"
    /\ setup_error = None /\ launch_error = "none" /\ phases = <<>>
    /\ ParseIdle /\ RefIdle /\ EncIdle /\ ConcIdle

\* Lines 65-69: the definition is loaded; FileNotFoundError and ValueError
\* are printed and end the command with status 1, any other exception
\* leaves the command.
CliLoad ==
    /\ cli_pc = "load"
    /\ \E is_mapping \in BOOLEAN :
         LET r == from_file(doc, is_mapping)
             new == NewDefinition(heap, r.value[1])
         IN  /\ loaded' = <<r>>
             /\ IF r.exc = "none"
                THEN /\ heap' = new.heap
                     /\ source_ref' = new.ref
                     /\ definition_ref' = new.ref
                     /\ cli_pc' = "overrides"
                     /\ UNCHANGED <<exit_status, cli_raised>>
                ELSE /\ exit_status' = <<1>>
                     /\ cli_pc' = "exit"
                     /\ cli_raised' =
                           IF r.exc \in {"FileNotFoundError", "ValueError"}
                           THEN "none" ELSE r.exc
                     /\ UNCHANGED <<heap, source_ref, definition_ref>>
    /\ UNCHANGED <<doc, cli_domain, cli_timeout, cli_output_xml, xml_file,
                   report, runVars, outsideCli>>

\* Lines 72-73: if domain: definition = definition.with_overrides(domain).
CliWithOverrides ==
    /\ cli_pc = "overrides"
    /\ IF Truthy(cli_domain)
       THEN LET new == with_overrides(heap, definition_ref, cli_domain)
            IN  heap' = new.heap /\ definition_ref' = new.ref
       ELSE UNCHANGED <<heap, definition_ref>>
    /\ cli_pc' = "timeout"
    /\ UNCHANGED <<cli_domain, cli_timeout, cli_output_xml, source_ref,
                   xml_file, report, exit_status, cli_raised, loadVars,
                   runVars, outsideCli>>

\* Lines 74-75: if timeout: definition.timeout = timeout.
CliSetTimeout ==
    /\ cli_pc = "timeout"
    /\ IF cli_timeout.some /\ cli_timeout.val # 0
       THEN heap' = [heap EXCEPT ![definition_ref].timeout = cli_timeout.val]
       ELSE UNCHANGED heap
    /\ cli_pc' = "run_test"
    /\ UNCHANGED <<cli_domain, cli_timeout, cli_output_xml, source_ref,
                   definition_ref, xml_file, report, exit_status, cli_raised,
                   loadVars, runVars, outsideCli>>

\* Lines 78-79: runner.run_test(definition) is entered.
CliRunTest ==
    /\ cli_pc = "run_test" /\ pc = "idle"
    /\ pc' = "setup_app"
    /\ definition' = Deref(heap, definition_ref)
    /\ UNCHANGED <<ccz_cached, restore_cached, requests, responses,
                   stdin_input, proc,
                   elapsed, result, raised, setup_error, launch_error, phases,
                   cliVars, loadVars, outsideCli>>

\* Lines 81-105: run_test has returned; the form is saved if asked for (an
\* OSError is printed), the result dictionary is put out by format_output
\* and the command ends with status 1 unless the test passed. format_output
\* writes to the console or to the file of the --output option; the OSError
\* of a file that cannot be written is not caught and leaves the command.
CliReport ==
    /\ cli_pc = "run_test" /\ pc = "done"
    /\ \E disk_ok \in BOOLEAN :
         xml_file' = IF cli_output_xml /\ Truthy(result[1].form_xml) /\ disk_ok
                     THEN result[1].form_xml ELSE xml_file
    /\ \E output_ok \in BOOLEAN :
         IF output_ok
         THEN /\ report' = <<to_dict(result[1])>>
              /\ exit_status' = <<IF result[1].passed THEN 0 ELSE 1>>
              /\ UNCHANGED cli_raised
         ELSE /\ cli_raised' = "OSError"
              /\ exit_status' = <<1>>
              /\ UNCHANGED report
    /\ cli_pc' = "exit"
    /\ UNCHANGED <<cli_domain, cli_timeout, cli_output_xml, heap, source_ref,
                   definition_ref, loadVars, runVars, outsideCli>>

\* An exception that left run_test leaves the command too; the interpreter
\* ends with status 1.
CliPropagate ==
    /\ cli_pc = "run_test" /\ pc = "raised"
    /\ cli_raised' = raised
    /\ exit_status' = <<1>>
    /\ cli_pc' = "exit"
    /\ UNCHANGED <<cli_domain, cli_timeout, cli_output_xml, heap, source_ref,
                   definition_ref, xml_file, report, loadVars, runVars,
                   outsideCli>>

NextCli ==
    \/ CliLoad
    \/ CliWithOverrides
    \/ CliSetTimeout
    \/ CliRunTest
    \/ CliReport
    \/ CliPropagate
    \/ Next

SpecCli == InitCli /\ [][NextCli]_vars

(***************************************************************************)
(* Two runs of ensure_app_downloaded for the same domain and app, in two   *)
(* processes that share the workspace directory.                           *)
(***************************************************************************)
InitConc ==
    /\ conc_pc = [r \in Runs |-> "check"]
    /\ conc_requests = [r \in Runs |-> <<>>]
    /\ ccz_file \in {"absent", "earlier"}
    /\ ccz_writes = <<>>
    /\ ParseIdle /\ RefIdle /\ EncIdle /\ RunIdle /\ LoadIdle /\ CliIdle

\* Lines 99-103: ccz_path.exists() is tested; the path is returned if the
\* file is there.
ConcCheck(r) ==
    /\ conc_pc[r] = "check"
    /\ conc_pc' = [conc_pc EXCEPT ![r] = IF ccz_file # "absent" THEN "done"
                                         ELSE "download"]
    /\ UNCHANGED <<conc_requests, ccz_file, ccz_writes, outsideConc>>

\* Lines 106-128: the application request and the download_ccz requests.
ConcDownload(r) ==
    /\ conc_pc[r] = "download"
    /\ \E api \in [info : ApiAnswers, release : ApiAnswers,
                   build : ApiAnswers, save : ApiAnswers] :
         LET d == ensure_app_downloaded(FALSE, api, "ok")
         IN  /\ conc_requests' = [conc_requests EXCEPT ![r] = d.requests]
             /\ conc_pc' = [conc_pc EXCEPT ![r] = IF d.error.some THEN "failed"
                                                  ELSE "save"]
    /\ UNCHANGED <<ccz_file, ccz_writes, outsideConc>>

\* Lines 130-138: save_app_ccz; ccz_path.write_bytes writes the file
\* whether or not it exists.
ConcSave(r) ==
    /\ conc_pc[r] = "save"
    /\ \E disk \in DiskOutcomes :
         /\ IF FileWritten(disk)
            THEN /\ ccz_file' = (IF r = 1 THEN "run1" ELSE "run2")
                 /\ ccz_writes' = Append(ccz_writes, r)
            ELSE UNCHANGED <<ccz_file, ccz_writes>>
         /\ conc_pc' = [conc_pc EXCEPT ![r] = IF disk = "ok" THEN "done"
                                              ELSE "failed"]
    /\ UNCHANGED <<conc_requests, outsideConc>>

NextConc == \E r \in Runs : ConcCheck(r) \/ ConcDownload(r) \/ ConcSave(r)

SpecConc == InitConc /\ [][NextConc]_vars

(***************************************************************************)
(* Properties.                                                             *)
(***************************************************************************)
\* The lines of a text as a line reader takes them: every newline ends a
\* line, and text after the last newline is a last line.
RECURSIVE LinesOf(_)
LinesOf(text) ==
    LET nl == {i \in 1..Len(text) : Ch(text, i) = "\n"}
    IN  IF text = "" THEN <<>>
        ELSE IF nl = {} THEN <<text>>
        ELSE <<SubSeq(text, 1, Min(nl) - 1)>>
             \o LinesOf(SubSeq(text, Min(nl) + 1, Len(text)))

\* Whether part occurs in text.
Contains(text, part) == \E i \in 1..Len(text) : StartsWithAt(text, i, part)

\* C1: the TestResult built from a completed player process has passed=true
\* exactly when the exit code is 0 and the extractor returned a fragment
\* (not None); otherwise passed=false.
C1_PassedIffExitZeroAndFragment ==
    parsed # <<>> =>
        parsed[1].passed
            = (out_exit[1] = 0 /\ _extract_form_xml(out_text) # None)

\* C1 witness: a player that exited with a non-zero code after printing a
\* form has been parsed (and failed), the case where both parts of the rule
\* are needed.
C1_Witness ==
    /\ parsed # <<>>
    /\ out_exit[1] # 0
    /\ _extract_form_xml(out_text) # None
    /\ ~parsed[1].passed

\* Whether text holds a block that opens with a <data> root tag, with or
\* without attributes, and closes with </data>.
HasDataBlock(text) ==
    \E i \in 1..Len(text), g \in 1..Len(text), c \in 1..Len(text) :
        /\ StartsWithAt(text, i, "<data")
        /\ g >= i + 5
        /\ Ch(text, g) = ">"
        /\ g > i + 5 => Ch(text, i + 5) \in Whitespace
        /\ \A k \in (i + 5)..(g - 1) : Ch(text, k) # ">"
        /\ c > g
        /\ StartsWithAt(text, c, "</data>")

\* C6 (as claimed): whenever the player exits with code 0 and its stdout
\* holds a <data ...> ... </data> block, with or without attributes on the
\* root tag, the outcome has passed=true.
C6_DataBlockPasses ==
    (parsed # <<>> /\ out_exit[1] = 0 /\ HasDataBlock(out_text))
        => parsed[1].passed

\* C7: with a non-empty answers map the script is, in this order and with
\* nothing else: the navigation lines, one empty line, one line starting
\* with ":replay ", one ":next" line and 10 empty lines; it holds exactly
\* one ":replay" line.
C7_ScriptWithAnswers ==
    (enc_script.some /\ enc_def.answers # <<>>) =>
        LET L == LinesOf(enc_script.val)
            n == Len(enc_def.navigation)
        IN  /\ Len(L) = n + 13
            /\ SubSeq(L, 1, n) = enc_def.navigation
            /\ L[n + 1] = ""
            /\ StartsWith(L[n + 2], ":replay ")
            /\ L[n + 3] = ":next"
            /\ \A k \in (n + 4)..(n + 13) : L[k] = ""
            /\ Cardinality({k \in 1..Len(L) : StartsWith(L[k], ":replay")}) = 1
            /\ Cardinality({k \in 1..Len(L) : L[k] = ":next"}) = 1

\* C7 witness: a definition with navigation lines and answers was encoded.
C7_Witness ==
    /\ enc_script.some
    /\ Len(enc_def.navigation) = 2
    /\ Len(enc_def.answers) = 2

\* C8 (as claimed): for every navigation list, the empty one included, with
\* empty answers the script is just the navigation lines, one per line: no
\* blank line, no ":replay" line, no ":next" line.
C8_NoBlankLineWithoutAnswers ==
    (enc_script.some /\ enc_def.answers = <<>>) =>
        LET L == LinesOf(enc_script.val)
        IN  /\ L = enc_def.navigation
            /\ \A k \in 1..Len(L) :
                 L[k] # "" /\ ~StartsWith(L[k], ":replay") /\ L[k] # ":next"

\* C8 (amended): with empty answers the script holds no ":replay" line and
\* no ":next" line and ends with a newline; for a non-empty navigation list
\* its lines are exactly the navigation lines (no blank line), and for the
\* empty navigation list it is one newline, that is one empty line.
C8_ScriptWithoutAnswers ==
    (enc_script.some /\ enc_def.answers = <<>>) =>
        LET L == LinesOf(enc_script.val)
        IN  /\ EndsWith(enc_script.val, "\n")
            /\ \A k \in 1..Len(L) :
                 ~StartsWith(L[k], ":replay") /\ L[k] # ":next"
            /\ enc_def.navigation # <<>> =>
                 L = enc_def.navigation /\ \A k \in 1..Len(L) : L[k] # ""
            /\ enc_def.navigation = <<>> => L = <<"">>

\* C8 witness: a definition with no navigation and no answers was encoded.
C8_Witness ==
    /\ enc_script.some
    /\ enc_def.answers = <<>>
    /\ enc_def.navigation = <<>>

\* Number of digit characters that end text.
RECURSIVE TrailingDigits(_)
TrailingDigits(text) ==
    IF text # "" /\ Ch(text, Len(text)) \in Digits
    THEN 1 + TrailingDigits(SubSeq(text, 1, Len(text) - 1))
    ELSE 0

\* Whether text ends in "[", one or more digits, "]".
EndsInDigitIndex(text) ==
    /\ EndsWith(text, "]")
    /\ LET d == TrailingDigits(SubSeq(text, 1, Len(text) - 1))
       IN  d >= 1 /\ Len(text) - 1 - d >= 1 /\ Ch(text, Len(text) - 1 - d) = "["

\* Whether text ends in a bracketed positive integer: a digit index with a
\* digit other than 0.
EndsInPositiveIndex(text) ==
    /\ EndsInDigitIndex(text)
    /\ LET d == TrailingDigits(SubSeq(text, 1, Len(text) - 1))
       IN  \E k \in (Len(text) - d)..(Len(text) - 1) : Ch(text, k) # "0"

\* C9 (as claimed): the encoder uses r unchanged if r ends in a bracketed
\* positive integer, and r followed by "[1]" in every other case, r ending
\* in "[0]" included.
C9_PositiveIndexOnly ==
    ref_indexed.some =>
        ref_indexed.val = IF EndsInPositiveIndex(ref_xpath) THEN ref_xpath
                          ELSE ref_xpath \o "[1]"

\* C9 (amended): the encoder uses r unchanged if r, or r without one final
\* newline, ends in a bracket holding one or more digits (so "[0]" too),
\* and r followed by "[1]" in every other case.
C9_DigitIndexKept ==
    ref_indexed.some =>
        LET body == IF EndsWith(ref_xpath, "\n")
                    THEN SubSeq(ref_xpath, 1, Len(ref_xpath) - 1)
                    ELSE ref_xpath
        IN  ref_indexed.val =
                IF EndsInDigitIndex(ref_xpath) \/ EndsInDigitIndex(body)
                THEN ref_xpath ELSE ref_xpath \o "[1]"

\* C9 witness: a reference ending in "[0]" was normalised and kept as it is.
C9_Witness == ref_xpath = "q[0]" /\ ref_indexed = Some("q[0]")

\* The directive the claim gives for one answers entry.
ClaimedDirective(entry) ==
    LET ref == _ensure_indexed_xpath(entry.xpath)
    IN  CASE entry.value = "SKIP" -> "((" \o ref \o ") (SKIP))"
          [] entry.value = "NEW_REPEAT" -> "((" \o ref \o ") (NEW_REPEAT))"
          [] OTHER -> "((" \o ref \o ") (VALUE) (" \o entry.value \o "))"

\* C10: every answers entry is emitted as ((ref) (SKIP)) exactly when its
\* value is the string SKIP, as ((ref) (NEW_REPEAT)) exactly when it is
\* NEW_REPEAT, and as ((ref) (VALUE) (value)) for every other value, "skip"
\* included; the directives are joined by one space on the ":replay" line,
\* and an action token never produces a VALUE directive.
C10_Directives ==
    (enc_script.some /\ enc_def.answers # <<>>) =>
        LET line == LinesOf(enc_script.val)[Len(enc_def.navigation) + 2]
            ans == enc_def.answers
        IN  /\ line = ":replay "
                      \o Join(" ", [i \in 1..Len(ans) |-> ClaimedDirective(ans[i])])
            /\ (\A i \in 1..Len(ans) : ans[i].value \in {"SKIP", "NEW_REPEAT"})
                 => ~Contains(line, "(VALUE)")
            /\ (\E i \in 1..Len(ans) : ans[i].value = "skip")
                 => Contains(line, "(VALUE) (skip))")

\* C10 witness: a definition with a SKIP answer and a "skip" answer was
\* encoded.
C10_Witness ==
    /\ enc_script.some
    /\ \E i, j \in 1..Len(enc_def.answers) :
         enc_def.answers[i].value = "SKIP" /\ enc_def.answers[j].value = "skip"

\* C2 (as claimed): no failure arising in setup, execution or report leaves
\* run_test as an exception.
C2_NothingEscapesRunTest == pc # "raised" /\ raised = "none"

\* C3: when ensure_app_downloaded or ensure_restore_downloaded fails,
\* run_test has returned a TestResult with passed=false whose error
\* describes the setup failure, and in that run the session script was never
\* built and no player process was spawned.
C3_SetupFailureEndsRun ==
    setup_error.some =>
        /\ pc = "done"
        /\ Len(result) = 1
        /\ ~result[1].passed
        /\ result[1].error.some
        /\ StartsWith(result[1].error.val, "Setup failed: ")
        /\ EndsWith(result[1].error.val, setup_error.val)
        /\ stdin_input = None
        /\ proc.state = "none"
        /\ raised = "none"

\* C3 witness: the restore step failed because the user was not found.
C3_Witness ==
    /\ pc = "done"
    /\ setup_error = Some("User 'u' not found in domain 'p'")

\* C4: a player still running when the timeout has elapsed is killed and
\* the run returns a TestResult with passed=false whose error identifies
\* the timeout; no TestResult has been returned while the player runs.
C4_TimeoutKillsPlayer ==
    /\ result # <<>> => proc.state # "running"
    /\ pc = "done" /\ proc.state # "none" =>
         /\ proc.state \in {"exited", "killed"}
         /\ proc.state = "exited" => elapsed < definition.timeout
    /\ proc.state = "killed" =>
         /\ elapsed >= definition.timeout
         /\ pc = "done"
         /\ Len(result) = 1
         /\ ~result[1].passed
         /\ result[1].error.some
         /\ Contains(result[1].error.val, "timed out")
         /\ raised = "none"

\* C4 witness: the player was killed at its timeout and the run has
\* returned.
C4_Witness == pc = "done" /\ proc.state = "killed" /\ result # <<>>

\* C5 (as claimed): when the player cannot be launched because Java is not
\* found, or the jar is absent and cannot be built, execute returns a
\* TestResult with passed=false and a not-found error, distinct from the
\* timeout and non-zero-exit errors.
C5_LaunchFailureReported ==
    launch_error \in {"JavaNotFoundError", "JavaVersionError", "BuildError",
                      "GradleNotFoundError"} =>
        /\ pc = "done"
        /\ Len(result) = 1
        /\ ~result[1].passed
        /\ result[1].error.some
        /\ StartsWith(result[1].error.val, "CLI not found")

\* The required keys of a document that are absent or empty (null or the
\* empty text), in the order of RequiredFields.
AbsentOrEmptyFields(d) ==
    SelectSeq(RequiredFields,
              LAMBDA k : \/ d[k].tag \in {"absent", "null"}
                         \/ d[k].tag = "str" /\ d[k].s = "")

\* C11 (as claimed): parsing a document fails if and only if at least one of
\* the required fields name, domain, app_id, username is absent or empty; the
\* failure message then names exactly the absent or empty required fields,
\* all of them; otherwise a TestDefinition is returned.
C11_FailsIffRequiredFieldMissing ==
    loaded # <<>> =>
        LET m == AbsentOrEmptyFields(doc)
        IN  /\ (loaded[1].exc # "none") = (m # <<>>)
            /\ m # <<>> =>
                 loaded[1].message = "Missing required fields: " \o Join(", ", m)
            /\ m = <<>> => Len(loaded[1].value) = 1

\* C13 (as claimed): parsing a document with all required fields whose
\* timeout is absent, null or a text that is no integer succeeds and yields
\* timeout 120; a timeout that int() accepts yields that integer.
C13_TimeoutDefaultsTo120 ==
    (loaded # <<>> /\ \A i \in 1..4 : ~Falsy(DictGet(doc[RequiredFields[i]]))) =>
        /\ loaded[1].exc = "none"
        /\ Len(loaded[1].value) = 1
        /\ loaded[1].value[1].timeout =
              IF doc.timeout.tag # "absent" /\ PyInt(doc.timeout).exc = "none"
              THEN PyInt(doc.timeout).n ELSE 120

\* C12: when the definition document of an invocation of "cc test run"
\* lacks a required field, loading fails with the ValueError of from_file
\* before run_test is entered: no request is sent to the remote API, no
\* file of the workspace is written, no script is built and no player is
\* spawned, and the command ends with exit status 1.
C12_MissingFieldEndsBeforeSetup ==
    /\ [](AbsentOrEmptyFields(doc) # <<>> =>
            /\ pc = "idle" /\ requests = <<>> /\ proc = NoProcess
            /\ stdin_input = None /\ result = <<>>
            /\ loaded # <<>> =>
                 /\ loaded[1].exc = "ValueError"
                 /\ cli_pc = "exit"
                 /\ exit_status = <<1>>
                 /\ cli_raised = "none")
    /\ [][AbsentOrEmptyFields(doc) # <<>> =>
            UNCHANGED <<ccz_cached, restore_cached>>]_vars

\* C12 witness: a document without username was loaded; the message names
\* username and the command has ended with status 1.
C12_Witness ==
    /\ doc.username = YamlAbsent
    /\ loaded # <<>>
    /\ Contains(loaded[1].message, "username")
    /\ exit_status = <<1>>

\* C14: with_overrides(domain) returns a TestDefinition object other than
\* the source, with a navigation list and an answers mapping of its own;
\* the source keeps the value of every field, and the copy has the source's
\* value in every field but domain, which is the override.
C14_OverrideCopies ==
    (cli_pc \in {"timeout", "run_test", "exit"} /\ source_ref # 0
     /\ Truthy(cli_domain)) =>
        LET src == heap[source_ref]
            copy == heap[definition_ref]
        IN  /\ definition_ref # source_ref
            /\ copy.navigation # src.navigation
            /\ copy.answers # src.answers
            /\ Deref(heap, source_ref) = loaded[1].value[1]
            /\ copy.domain = cli_domain.val
            /\ copy.name = src.name
            /\ copy.app_id = src.app_id
            /\ copy.username = src.username
            /\ heap[copy.navigation] = heap[src.navigation]
            /\ heap[copy.answers] = heap[src.answers]
            /\ cli_pc = "timeout" => copy.timeout = src.timeout

\* C14 witness: a definition with navigation and answers was copied with
\* the domain overridden, and the timeout of the copy was then set.
C14_Witness ==
    /\ cli_pc = "run_test"
    /\ cli_domain = Some("q")
    /\ definition_ref # source_ref
    /\ heap[heap[source_ref].answers] # <<>>
    /\ heap[definition_ref].timeout # heap[source_ref].timeout

\* C16 (as claimed): the result dictionary holds the keys test_name, passed,
\* exit_code and duration_seconds always, error exactly when the result has
\* an error message, form_fragment_size_bytes exactly when a form was
\* extracted, and no other key.
C16_ReportKeysAsClaimed ==
    report # <<>> =>
        DOMAIN report[1] =
            {"test_name", "passed", "exit_code", "duration_seconds"}
            \cup (IF result[1].error # None THEN {"error"} ELSE {})
            \cup (IF result[1].form_xml # None
                  THEN {"form_fragment_size_bytes"} ELSE {})

\* C16 (amended): the same, the key of the size of the extracted form being
\* form_xml_size_bytes, whose value is the length of the form.
C16_ReportKeys ==
    report # <<>> =>
        /\ DOMAIN report[1] =
              {"test_name", "passed", "exit_code", "duration_seconds"}
              \cup (IF result[1].error # None THEN {"error"} ELSE {})
              \cup (IF result[1].form_xml # None
                    THEN {"form_xml_size_bytes"} ELSE {})
        /\ report[1]["test_name"] = result[1].test_name
        /\ report[1]["passed"] = result[1].passed
        /\ report[1]["exit_code"] = result[1].exit_code
        /\ result[1].error # None => report[1]["error"] = result[1].error.val
        /\ result[1].form_xml # None =>
             report[1]["form_xml_size_bytes"] = Len(result[1].form_xml.val)

\* C16 witness: the report of a player that printed a form and exited with
\* a failure code holds both optional keys.
C16_Witness ==
    /\ report # <<>>
    /\ {"error", "form_xml_size_bytes"} \subseteq DOMAIN report[1]
    /\ ~report[1]["passed"]

\* C15: for every stdout text (empty, without markup, with unbalanced or
\* truncated markup, with lone angle brackets) _extract_form_xml returns
\* None or a non-empty fragment that is part of the text, and it returns
\* None for every text that holds no "<" or no ">"; _parse_result puts what
\* it returned into the TestResult.
C15_ExtractorTotal ==
    LET r == _extract_form_xml(out_text)
    IN  /\ \/ r = None
           \/ r.some /\ r.val # "" /\ Contains(out_text, r.val)
        /\ (~Contains(out_text, "<") \/ ~Contains(out_text, ">")) => r = None
        /\ parsed # <<>> => parsed[1].form_xml = r

\* C15 witness: an output of menu text and lone angle brackets was parsed
\* and no form was found.
C15_Witness ==
    /\ out_text = "Menu <<Menu "
    /\ parsed # <<>>
    /\ parsed[1].form_xml = None

C18_CancelReturnsOutcome ==
    /\ raised # "KeyboardInterrupt"
    /\ (proc.state = "killed" /\ elapsed < definition.timeout) =>
         /\ pc = "done"
         /\ Len(result) = 1
         /\ ~result[1].passed
         /\ result[1].error.some
         /\ Contains(result[1].error.val, "ancel")

\* C20: run_test announces its phases only in the order Setup, Execute,
\* Results, each at most once; Execute is entered only when both setup
\* steps succeeded and both artifacts are in the workspace; and once
\* run_test has returned a TestResult or raised, no phase is entered and
\* the outcome does not change.
C20_PhaseOrder ==
    /\ [](/\ \E k \in 0..3 :
               phases = SubSeq(<<"SETUP", "EXECUTE", "REPORT">>, 1, k)
          /\ Len(phases) >= 2 =>
               ccz_cached /\ restore_cached /\ setup_error = None
          /\ setup_error # None => phases = <<"SETUP">> /\ pc = "done"
          /\ pc \in {"execute", "running"} => result = <<>>)
    /\ [][(result # <<>> \/ raised # "none") =>
            phases' = phases /\ pc' = pc /\ result' = result]_vars

\* C20 witness: a run went through the three phases and the command has
\* put out its report.
C20_Witness ==
    /\ phases = <<"SETUP", "EXECUTE", "REPORT">>
    /\ pc = "done"
    /\ cli_pc = "exit"

\* C19 (as claimed): when two runs set up the same app at the same time,
\* at most one of them writes the CCZ file, whatever the interleaving.
C19_AtMostOneWrite == Cardinality({ccz_writes[i] : i \in 1..Len(ccz_writes)}) <= 1

\* C21 (as claimed): from the construction of a TestDefinition to the end
\* of the command no step changes a field of a TestDefinition object that
\* exists (nor its navigation list or answers mapping): the domain and
\* timeout overrides are applied by creating a new object.
C21_NoInPlaceMutation ==
    [][\A a \in 1..Len(heap) : heap'[a] = heap[a]]_vars

\* Characters that begin the name of an element.
NameStartChars ==
    LET letters == "abcdefghijklmnopqrstuvwxyzABCDEFGHIJKLMNOPQRSTUVWXYZ_"
    IN  {Ch(letters, i) : i \in 1..Len(letters)}

\* What the tag that begins at p adds to the nesting depth: 1 for an opening
\* tag, -1 for a closing tag, 0 for an empty-element tag, a declaration, a
\* comment and for anything that is no tag.
TagDepth(s, p) ==
    LET gt == {g \in (p + 1)..Len(s) : Ch(s, g) = ">"}
    IN  IF Ch(s, p) # "<" \/ p = Len(s) THEN 0
        ELSE IF Ch(s, p + 1) = "/" THEN -1
        ELSE IF Ch(s, p + 1) \notin NameStartChars THEN 0
        ELSE IF gt # {} /\ Ch(s, Min(gt) - 1) = "/" THEN 0
        ELSE 1

\* The record that begins at the start of s: s opens with an XML declaration
\* followed, after whitespace at most, by a root element, or with the root
\* element; the record ends
\* with the ">" of the closing tag that brings the nesting depth of the root
\* back to 0. Its last index, 0 if s holds no such record.
RecordEnd(s) ==
    LET declEnd == IF StartsWith(s, "<?xml")
                   THEN {j \in 1..Len(s) : StartsWithAt(s, j, "?>")}
                   ELSE {0}
        from == IF declEnd = {} THEN Len(s) + 1
                ELSE IF declEnd = {0} THEN 1 ELSE Min(declEnd) + 2
        roots == {p \in from..Len(s) :
                    /\ TagDepth(s, p) = 1
                    /\ \A q \in from..(p - 1) : Ch(s, q) \in Whitespace}
        root == Min(roots)
        depth(p) == Cardinality({q \in root..p : TagDepth(s, q) = 1})
                    - Cardinality({q \in root..p : TagDepth(s, q) = -1})
        closes == {p \in root..Len(s) : TagDepth(s, p) = -1 /\ depth(p) = 0}
    IN  IF roots = {} THEN 0
        ELSE IF closes = {} THEN 0
        ELSE CloseTagEnd(s, Min(closes))

\* C22 (as claimed): when the regular expression of the first pass matches
\* and the output holds, from the start of the match, a whole record (a
\* declaration or root opening tag up to the closing tag that matches the
\* root), the fragment returned is that record: a record with nested
\* elements is not cut at an inner closing tag.
C22_RegexFragmentIsWholeRecord ==
    LET starts == {i \in 1..Len(out_text) :
                     \/ XmlDeclMatchEnd(out_text, i) # 0
                     \/ DataMatchEnd(out_text, i) # 0}
        rest == SubSeq(out_text, Min(starts), Len(out_text))
    IN  (starts # {} /\ RecordEnd(rest) # 0) =>
            _extract_form_xml(out_text) = Some(SubSeq(rest, 1, RecordEnd(rest)))

\* C23 (as claimed): a setup step sends requests to the remote API only when
\* its artifact is not in the workspace; with the artifact cached the step
\* sends nothing and succeeds, whatever the API would answer.
C23_ApiOnlyOnCacheMiss ==
    [][/\ (pc = "setup_app" /\ ccz_cached) =>
             requests' = requests /\ pc' = "setup_restore"
       /\ (pc = "setup_restore" /\ restore_cached) =>
             requests' = requests /\ pc' = "execute"]_vars

\* The explanations of the failure categories: setup failure, timeout,
\* launch failure, non-zero exit, form not found.
FailureExplanations ==
    [setup |-> "Setup failed: ", timeout |-> "Test timed out after ",
     launch |-> "CLI not found: ", exit |-> "Process exited with code ",
     no_form |-> "Form XML not found in output."]

\* The failure category of the run whose TestResult has been returned.
FailureCategory ==
    IF setup_error.some THEN "setup"
    ELSE IF launch_error # "none" THEN "launch"
    ELSE IF proc.state = "killed" THEN "timeout"
    ELSE IF proc.returncode # 0 THEN "exit"
    ELSE "no_form"

\* C24: every TestResult run_test returns has passed=false exactly when it
\* carries a non-empty error message; a passed result carries no error; and
\* the error of a failed result begins with the explanation of its failure
\* category (setup failure, timeout, launch failure, non-zero exit, form
\* not found) and with that of no other category.
C24_FailedIffError ==
    result # <<>> =>
        LET r == result[1]
        IN  /\ Len(result) = 1
            /\ (~r.passed) = Truthy(r.error)
            /\ r.passed => r.error = None
            /\ ~r.passed =>
                 {c \in DOMAIN FailureExplanations :
                    StartsWith(r.error.val, FailureExplanations[c])}
                 = {FailureCategory}

\* C24 witness: a player that printed a menu and exited with code 0 gave a
\* failed result whose error says that no form was found.
C24_Witness ==
    /\ pc = "done"
    /\ proc.state = "exited" /\ proc.returncode = 0
    /\ ~result[1].passed
    /\ result[1].error =
          Some("Form XML not found in output. The form may not have completed.")

\* C25: in one run the player is spawned at most once: a player starts only
\* in a step of execute taken when no player was spawned before; the
\* execute phase is entered only from the setup phase and the setup phase
\* only at the start of run_test, so no phase is entered a second time;
\* and once run_test has returned or raised, nothing of the run changes.
C25_SingleSpawn ==
    [][/\ (proc' # proc /\ proc'.state = "running") =>
             (proc.state = "none" /\ pc = "execute")
       /\ proc.state # "none" => proc'.state # "none"
       /\ (pc' = "execute" /\ pc # "execute") => pc = "setup_restore"
       /\ (pc' = "setup_app" /\ pc # "setup_app") => pc = "idle"
       /\ pc # "execute" => launch_error' = launch_error
       /\ pc \in {"done", "raised"} =>
             UNCHANGED <<pc, proc, stdin_input, result, requests>>]_vars

\* C25 witness: a run whose player exited with a failure code has returned,
\* with that one player spawned.
C25_Witness ==
    /\ pc = "done"
    /\ proc.state = "exited" /\ proc.returncode = 1
    /\ result # <<>> /\ ~result[1].passed

\* C26 (as claimed): every TestDefinition that reaches the execute phase has
\* a timeout greater than 0, whatever timeout the definition file holds and
\* whatever --timeout is given.
C26_TimeoutPositive ==
    pc \in {"execute", "running"} => definition.timeout > 0

\* C27 (as claimed): a setup step that fails leaves the workspace as it
\* was: after ensure_app_downloaded or ensure_restore_downloaded has raised
\* its RuntimeError, the CCZ file (the restore file) is in the workspace
\* only if it was there before the step.
C27_FailedSetupLeavesCache ==
    [][(setup_error = None /\ setup_error' # None) =>
          (ccz_cached' = ccz_cached /\ restore_cached' = restore_cached)]_vars

\* The download_ccz requests of the run, in the order they were sent, and
\* what the API answered to each.
CczRequests ==
    LET at == {i \in 1..Len(requests) :
                 requests[i] \in {"download_ccz:release", "download_ccz:build",
                                  "download_ccz:save"}}
    IN  IF at = {} THEN [reqs |-> <<>>, resps |-> <<>>]
        ELSE [reqs |-> SubSeq(requests, Min(at), Min(at) + Cardinality(at) - 1),
              resps |-> SubSeq(responses, Min(at), Min(at) + Cardinality(at) - 1)]

\* C28: when the CCZ file is not in the workspace the package variants are
\* requested in the order release, build, save: each variant after the
\* first is requested exactly when the one before it answered 404, so the
\* first answer other than 404 ends the sequence; and when the answer that
\* ends the sequence is not a success (a 404 to "save" included) the setup
\* fails and the CCZ file is not written.
C28_VariantOrder ==
    pc # "setup_app" =>
        LET v == CczRequests
            n == Len(v.reqs)
            order == <<"download_ccz:release", "download_ccz:build",
                       "download_ccz:save">>
        IN  /\ n <= 3 /\ v.reqs = SubSeq(order, 1, n)
            /\ \A i \in 1..n : (i < n) = (v.resps[i] = "404" /\ i < 3)
            /\ (n > 0 /\ v.resps[n] # "200") =>
                 /\ pc = "done" /\ ~ccz_cached
                 /\ setup_error.some
                 /\ StartsWith(setup_error.val, "Failed to download app CCZ: ")
                 /\ Len(result) = 1 /\ ~result[1].passed

\* C28 witness: release, build and save were requested and all three
\* answered 404; the setup failed and the workspace holds no CCZ file.
C28_Witness ==
    /\ requests = <<"application", "download_ccz:release",
                    "download_ccz:build", "download_ccz:save">>
    /\ responses = <<"200", "404", "404", "404">>
    /\ pc = "done" /\ ~ccz_cached

\* C29: in the fallback pass in_xml mode is never left: the lines are
\* accumulated from the first qualifying line of the output on (a line that
\* begins with "<?xml", or with "<" but not "<!" and is longer than 10
\* characters), a closing-tag line at which the block holds 3 or fewer "<"
\* neither ends nor discards the block, and what the pass returns is the
\* block from the first qualifying line to the first closing-tag line at
\* which it holds more than 3 "<", or None if there is no such line; when
\* the regular expression of the first pass does not match, that is the
\* form of the result.
C29_FallbackNeverLeaves ==
    LET lines == Split(out_text)
        opens == {k \in 1..Len(lines) : OpensXml(Strip(lines[k]), FALSE)}
        first == Min(opens)
        block(e) == Strip(Join("\n", SubSeq(lines, first, e)))
        ends == {e \in first..Len(lines) :
                   /\ StartsWith(Strip(lines[e]), "</")
                   /\ EndsWith(Strip(lines[e]), ">")
                   /\ Count(block(e), "<") > 3}
        found == IF opens = {} THEN None
                 ELSE IF ends = {} THEN None
                 ELSE Some(block(Min(ends)))
    IN  /\ FallbackScan(lines, 1, FALSE, <<>>) = found
        /\ (parsed # <<>> /\ ~XmlPatternSearch(out_text).some) =>
              parsed[1].form_xml = found

\* C29 witness: after a menu line the first qualifying line is a
\* closing-tag line with 3 "<", which did not end the block; a further line
\* was accumulated and the block was returned at the closing tag of the
\* fourth line.
C29_Witness ==
    /\ out_text = "Menu \n</data><q>1</q>\n<q>1</q>\n</data>\n"
    /\ parsed # <<>>
    /\ parsed[1].form_xml = Some("</data><q>1</q>\n<q>1</q>\n</data>")

\* C30 (as claimed): the command ends with a failure exit status exactly
\* when the definition failed to load or run_test returned a TestResult
\* with passed=false; and whenever run_test returned a TestResult, its
\* dictionary has been put out by the time the command ends.
C30_ExitStatusAndReport ==
    exit_status # <<>> =>
        /\ (exit_status[1] # 0)
             = \/ loaded # <<>> /\ loaded[1].exc # "none"
               \/ result # <<>> /\ ~result[1].passed
        /\ result # <<>> => report = <<to_dict(result[1])>>

=============================================================================
